---- MODULE Spec2Model ----
(***************************************************************************)
(* Model of the rustkerneldev kernel core: the framebuffer console         *)
(* (src/src/writer.rs), the interrupt handlers and controller set-up       *)
(* (src/src/interruptsa.rs) and the entry point (src/src/main.rs).         *)
(*                                                                         *)
(* Three specifications share the variables:                               *)
(*   SpecConsole  arbitrary sequences of set_cursor / write / backspace    *)
(*                calls on one FrameBufferWriter;                          *)
(*   SpecPixel    write_pixel alone, over pixel formats and pixel sizes;   *)
(*   Spec         the kernel: my_entry_point interleaved with the delivery *)
(*                of timer, keyboard and exception interrupts.             *)
(***************************************************************************)
EXTENDS Integers, Sequences, FiniteSets, TLC

VARIABLES
    writer,      \* the FrameBufferWriter object (writer.rs:34-39) plus ghost fields
    lastOp,      \* ghost: the console call made by the last step
    fbw,         \* FRAME_BUFFER_WRITER: "None" or "Some" (main.rs:36)
    locks,       \* holder of each spin::Mutex: "free", "main" or "isr"
    pcMain,      \* position of my_entry_point
    mainText,    \* characters print! on main.rs:48 still has to write
    intEnabled,  \* the CPU interrupt-enable flag (RFLAGS.IF)
    idt,         \* vectors populated in the IDT static (built lazily)
    idtLoaded,   \* IDT.load() has run
    pics,        \* the ChainedPics: offsets, initialized, in-service lines
    isr,         \* the running interrupt handler, or NoIsr
    keyboard,    \* decoder state of the KEYBOARD static
    eventsLeft,  \* keyboard interrupts and exceptions the environment may still raise
    callsLeft    \* console calls the driver of SpecConsole may still make

vars == <<writer, lastOp, fbw, locks, pcMain, mainText, intEnabled, idt, idtLoaded,
          pics, isr, keyboard, eventsLeft, callsLeft>>

kernelVars == <<fbw, locks, pcMain, mainText, intEnabled, idt, idtLoaded, pics, isr,
                keyboard, eventsLeft>>

(***************************************************************************)
(* Constants of writer.rs and of its constants module.                     *)
(***************************************************************************)
LINE_SPACING == 2
LETTER_SPACING == 0
BORDER_PADDING == 1
\* font_constants (module `constants`, declared at writer.rs:1): the glyph
\* cell, scaled down from the font's real cell to keep the buffers small.
CHAR_RASTER_HEIGHT == 2
CHAR_RASTER_WIDTH == 2
BACKUP_CHAR == "#"

LineHeight == CHAR_RASTER_HEIGHT + LINE_SPACING
CellWidth == CHAR_RASTER_WIDTH + LETTER_SPACING

(***************************************************************************)
(* Bounds of the model.                                                    *)
(***************************************************************************)
MaxRow == 2          \* set_cursor rows are drawn from 0..MaxRow
MaxCol == 3          \* set_cursor columns are drawn from 0..MaxCol
MaxCalls == 4        \* console calls made after construction in SpecConsole
MaxEvents == 3       \* keyboard interrupts and exceptions raised in Spec
MainTextLen == 3     \* characters of the text my_entry_point prints
MaxBytesPerPixel == 5 \* bytes_per_pixel of SpecPixel is drawn from 1..MaxBytesPerPixel
MaxPixelWrites == 2  \* write_pixel calls made in SpecPixel

\* Characters are named by strings: "a", "F" and "1" have glyphs, "U+001B"
\* (escape) has none and falls back to BACKUP_CHAR; "U+0008" is backspace.
\* Texts are the arguments of write() in SpecConsole.
Texts == { <<"a">>, <<"U+001B">>, <<"\n">>, <<"\r">>,
           <<"a", "a">>, <<"a", "\n">>, <<"\n", "\r">> }

\* FrameBufferInfo values handed over by the boot loader.
Geometry(w, h, s, b, f) ==
    [width |-> w, height |-> h, stride |-> s, bytes_per_pixel |-> b, pixel_format |-> f]

\* Boot configurations: the FrameBufferInfo, and whether the build has
\* overflow-checks (arithmetic overflow panics) or not (it wraps).
Boot(info, checks) == [info |-> info, checks |-> checks]

Boots ==
    { Boot(Geometry(7, 9, 8, 1, "U8"), TRUE),
      Boot(Geometry(5, 7, 5, 3, "Rgb"), FALSE),
      Boot(Geometry(2, 3, 2, 4, "Bgr"), TRUE),
      Boot(Geometry(2, 3, 2, 4, "Bgr"), FALSE),
      Boot(Geometry(7, 9, 8, 4, "Unknown"), TRUE) }

(***************************************************************************)
(* noto_sans_mono_bitmap::get_raster: intensity of glyph pixel (row, col). *)
(***************************************************************************)
get_raster(c) ==
    IF c = "a" THEN [r \in 0..(CHAR_RASTER_HEIGHT - 1) |->
                        [k \in 0..(CHAR_RASTER_WIDTH - 1) |->
                            IF (r + k) % 2 = 0 THEN 255 ELSE 100]]
    ELSE IF c \in {"F", "1"} THEN [r \in 0..(CHAR_RASTER_HEIGHT - 1) |->
                        [k \in 0..(CHAR_RASTER_WIDTH - 1) |->
                            IF (r + k) % 2 = 0 THEN 100 ELSE 255]]
    ELSE IF c = BACKUP_CHAR THEN [r \in 0..(CHAR_RASTER_HEIGHT - 1) |->
                        [k \in 0..(CHAR_RASTER_WIDTH - 1) |-> 201]]
    ELSE <<>>   \* None

get_char_raster(c) ==
    IF get_raster(c) # <<>> THEN get_raster(c) ELSE get_raster(BACKUP_CHAR)

(***************************************************************************)
(* FrameBufferWriter.  Ghost fields: panic (the panic raised, "none" if    *)
(* none; the panic handler never returns), writes (the pixel coordinates   *)
(* the current call has issued to write_pixel, the faulting one included), *)
(* checks (the build's overflow-checks setting).                           *)
(***************************************************************************)
Panicked(w) == w.panic # "none"

width(w) == w.info.width
height(w) == w.info.height

BufferLen(info) == info.height * info.stride * info.bytes_per_pixel

Fill(w, v) == [i \in DOMAIN w.framebuffer |-> v]

clear(w) ==
    [w EXCEPT !.x_pos = BORDER_PADDING,
              !.y_pos = BORDER_PADDING,
              !.framebuffer = Fill(w, 0)]

carriage_return(w) == [w EXCEPT !.x_pos = BORDER_PADDING]

\* newline without the line spacing.
newline_tight(w) == carriage_return([w EXCEPT !.y_pos = @ + CHAR_RASTER_HEIGHT])

newline(w) == carriage_return([w EXCEPT !.y_pos = @ + CHAR_RASTER_HEIGHT + LINE_SPACING])

\* The struct literal of FrameBufferWriter::new, on a buffer holding
\* whatever the boot loader left in it.
Unconstructed(info, checks) ==
    [info |-> info, x_pos |-> 0, y_pos |-> 0,
     framebuffer |-> [i \in 0..(BufferLen(info) - 1) |-> 255],
     panic |-> "none", writes |-> {}, checks |-> checks]

new(info, checks) == clear(Unconstructed(info, checks))

\* The colour tuple with the RGB and BGR orders exchanged.
Color_exchanged(fmt, intensity) ==
    CASE fmt = "Bgr" -> <<intensity, intensity, intensity \div 2, 0>>
      [] fmt = "Rgb" -> <<intensity \div 2, intensity, intensity, 0>>
      [] fmt = "U8"  -> <<IF intensity > 200 THEN 15 ELSE 0, 0, 0, 0>>

Color(fmt, intensity) ==
    CASE fmt = "Rgb" -> <<intensity, intensity, intensity \div 2, 0>>
      [] fmt = "Bgr" -> <<intensity \div 2, intensity, intensity, 0>>
      [] fmt = "U8"  -> <<IF intensity > 200 THEN 15 ELSE 0, 0, 0, 0>>

\* write_pixel that falls back to RGB on an unsupported format and goes on.
write_pixel_fallback(w, x, y, intensity) ==
    IF Panicked(w) THEN w
    ELSE LET fmt == IF w.info.pixel_format \in {"Rgb", "Bgr", "U8"}
                    THEN w.info.pixel_format ELSE "Rgb"
             bytes_per_pixel == w.info.bytes_per_pixel
             byte_offset == (y * w.info.stride + x) * bytes_per_pixel
         IN IF byte_offset + bytes_per_pixel > BufferLen(w.info) \/ bytes_per_pixel > 4
            THEN [w EXCEPT !.panic = "index out of range", !.writes = @ \cup {<<x, y>>}]
            ELSE [w EXCEPT !.info.pixel_format = fmt,
                           !.writes = @ \cup {<<x, y>>},
                           !.framebuffer =
                               [i \in DOMAIN @ |->
                                   IF i >= byte_offset /\ i < byte_offset + bytes_per_pixel
                                   THEN Color(fmt, intensity)[i - byte_offset + 1] ELSE @[i]]]

\* write_pixel: a panicked writer runs no further code.
write_pixel(w, x, y, intensity) ==
    IF Panicked(w) THEN w
    ELSE IF w.info.pixel_format \notin {"Rgb", "Bgr", "U8"}
    THEN [w EXCEPT !.info.pixel_format = "Rgb", !.panic = "pixel format",
                   !.writes = @ \cup {<<x, y>>}]
    ELSE LET pixel_offset == y * w.info.stride + x
             bytes_per_pixel == w.info.bytes_per_pixel
             byte_offset == pixel_offset * bytes_per_pixel
             color == Color(w.info.pixel_format, intensity)
         IN IF byte_offset + bytes_per_pixel > BufferLen(w.info) \/ bytes_per_pixel > 4
            THEN [w EXCEPT !.panic = "index out of range", !.writes = @ \cup {<<x, y>>}]
            ELSE [w EXCEPT !.writes = @ \cup {<<x, y>>},
                           !.framebuffer =
                               [i \in DOMAIN @ |->
                                   IF i >= byte_offset /\ i < byte_offset + bytes_per_pixel
                                   THEN color[i - byte_offset + 1] ELSE @[i]]]

\* Runs write_pixel over a sequence of <<x, y, intensity>> in order.
RECURSIVE WritePixels(_, _)
WritePixels(w, pixels) ==
    IF pixels = <<>> THEN w
    ELSE WritePixels(write_pixel(w, pixels[1][1], pixels[1][2], pixels[1][3]),
                     Tail(pixels))

\* write_rendered_char: rows top to bottom, columns left to right, then advance.
write_rendered_char(w, rendered_char) ==
    LET n == CHAR_RASTER_HEIGHT * CHAR_RASTER_WIDTH
        pixels == [i \in 1..n |->
                     LET y == (i - 1) \div CHAR_RASTER_WIDTH
                         x == (i - 1) % CHAR_RASTER_WIDTH
                     IN <<w.x_pos + x, w.y_pos + y, rendered_char[y][x]>>]
        drawn == WritePixels(w, pixels)
    IN IF Panicked(drawn) THEN drawn
       ELSE [drawn EXCEPT !.x_pos = @ + CHAR_RASTER_WIDTH + LETTER_SPACING]

write_char(w, c) ==
    IF Panicked(w) THEN w
    ELSE IF c = "\n" THEN newline(w)
    ELSE IF c = "\r" THEN carriage_return(w)
    ELSE LET new_xpos == w.x_pos + CHAR_RASTER_WIDTH
             w1 == IF new_xpos >= width(w) THEN newline(w) ELSE w
             new_ypos == w1.y_pos + CHAR_RASTER_HEIGHT + BORDER_PADDING
             w2 == IF new_ypos >= height(w1) THEN clear(w1) ELSE w1
         IN write_rendered_char(w2, get_char_raster(c))

\* fmt::Write::write_str: one write_char per character of s.
RECURSIVE write_str(_, _)
write_str(w, s) ==
    IF s = <<>> THEN w ELSE write_str(write_char(w, s[1]), Tail(s))

\* (n - 1) * k in usize: with n = 0 the subtraction overflows, which panics
\* under overflow checks and otherwise wraps; the wrapped product is
\* 2^64 - k, written here as its two's-complement reading -k.
Overflows(n) == n = 0
PredTimes(n, k) == IF n = 0 THEN 0 - k ELSE (n - 1) * k

\* set_cursor that moves relative to the current position.
set_cursor_relative(w, row, column) ==
    [w EXCEPT !.y_pos = @ + row * (CHAR_RASTER_HEIGHT + LINE_SPACING),
              !.x_pos = @ + column * (CHAR_RASTER_WIDTH + LETTER_SPACING)]

set_cursor(w, row, column) ==
    LET max_row == height(w) \div (CHAR_RASTER_HEIGHT + LINE_SPACING)
        max_column == width(w) \div (CHAR_RASTER_WIDTH + LETTER_SPACING)
        w1 == [w EXCEPT !.y_pos = row * (CHAR_RASTER_HEIGHT + LINE_SPACING),
                        !.x_pos = column * (CHAR_RASTER_WIDTH + LETTER_SPACING)]
        w2 == IF w1.y_pos >= height(w1)
              THEN IF Overflows(max_row) /\ w1.checks
                   THEN [w1 EXCEPT !.panic = "arithmetic overflow"]
                   ELSE clear([w1 EXCEPT !.y_pos =
                                 PredTimes(max_row, CHAR_RASTER_HEIGHT + LINE_SPACING)])
              ELSE w1
        w3 == IF Panicked(w2) THEN w2
              ELSE IF w2.x_pos >= width(w2)
              THEN IF Overflows(max_column) /\ w2.checks
                   THEN [w2 EXCEPT !.panic = "arithmetic overflow"]
                   ELSE newline([w2 EXCEPT !.x_pos =
                                   PredTimes(max_column, CHAR_RASTER_WIDTH + LETTER_SPACING)])
              ELSE w2
    IN w3

\* The body of backspace's if: step back one cell and write intensity 0 to
\* its pixels, rows top to bottom, columns right to left.
erase_previous_cell(w) ==
    LET w1 == [w EXCEPT !.x_pos = @ - (CHAR_RASTER_WIDTH + LETTER_SPACING)]
        n == CHAR_RASTER_HEIGHT * CHAR_RASTER_WIDTH
        pixels == [i \in 1..n |->
                     LET y == (i - 1) \div CHAR_RASTER_WIDTH
                         x == (CHAR_RASTER_WIDTH - 1) - ((i - 1) % CHAR_RASTER_WIDTH)
                     IN <<w1.x_pos + x, w1.y_pos + y, 0>>]
    IN WritePixels(w1, pixels)

\* backspace that, at the left margin, goes back to the previous line.
backspace_prev_line(w) ==
    IF w.x_pos >= BORDER_PADDING + CHAR_RASTER_WIDTH THEN erase_previous_cell(w)
    ELSE IF w.y_pos >= CHAR_RASTER_HEIGHT + LINE_SPACING
    THEN [w EXCEPT !.y_pos = @ - (CHAR_RASTER_HEIGHT + LINE_SPACING)]
    ELSE w

\* backspace that steps back from any position right of the border padding.
backspace_off_margin(w) ==
    IF w.x_pos > BORDER_PADDING THEN erase_previous_cell(w) ELSE w

backspace(w) ==
    IF w.x_pos >= BORDER_PADDING + CHAR_RASTER_WIDTH THEN erase_previous_cell(w)
    ELSE w

(***************************************************************************)
(* Interrupt set-up and handlers (interruptsa.rs), entry point (main.rs).  *)
(***************************************************************************)
PIC_1_OFFSET == 32
PIC_2_OFFSET == PIC_1_OFFSET + 8

InterruptIndex == [Timer |-> PIC_1_OFFSET, Keyboard |-> PIC_1_OFFSET + 1]

\* Vector numbers of the named fields of x86_64's InterruptDescriptorTable.
ExceptionVector ==
    [breakpoint |-> 3, invalid_opcode |-> 6, double_fault |-> 8,
     general_protection_fault |-> 13]

\* The IDT static: the vectors set_handler_fn is called for.
IDT ==
    (ExceptionVector.breakpoint :> "breakpoint_handler")
    @@ (ExceptionVector.double_fault :> "double_fault_handler")
    @@ (ExceptionVector.general_protection_fault :> "general_protection_handler")
    @@ (ExceptionVector.invalid_opcode :> "invalid_opcode_handler")
    @@ (InterruptIndex.Timer :> "timer_interrupt_handler")
    @@ (InterruptIndex.Keyboard :> "keyboard_interrupt_handler")

\* The PICS static before initialize(): ChainedPics::new(PIC_1_OFFSET, PIC_2_OFFSET).
PICS == [offsets |-> <<PIC_1_OFFSET, PIC_2_OFFSET>>, initialized |-> FALSE, inService |-> {}]

Locks == {"PICS", "KEYBOARD", "FRAME_BUFFER_WRITER"}

\* init(): the calls it makes, in order.
init_enable_first == <<"enable", "init_idt", "init_pics">>

init == <<"init_idt", "init_pics", "enable">>

\* Positions of my_entry_point inside init(), and the one after it.
InitPc == <<"init_1", "init_2", "init_3">>
AfterInit(i) == IF i < Len(init) THEN InitPc[i + 1] ELSE "store_lock"

\* ---- the keyboard decoder (pc_keyboard, ScancodeSet1, Us104Key) ----
NoKey == [kind |-> "None", val |-> ""]
Unicode(c) == [kind |-> "Unicode", val |-> c]
RawKey(k) == [kind |-> "RawKey", val |-> k]

\* Scancode bytes the keyboard sends in the model: A, Backspace, Enter, F1,
\* Escape pressed; A released; the extended prefix 0xE0.
Scancodes == {30, 14, 28, 59, 1, 158, 224}

\* Key codes of the scancode bytes, "Err" for a byte with none.
KeyCodeOf(b) ==
    CASE b = 30 -> "A" [] b = 14 -> "Backspace" [] b = 28 -> "Enter"
      [] b = 59 -> "F1" [] b = 1 -> "Escape" [] OTHER -> "Err"

ExtendedKeyCodeOf(b) == CASE b = 28 -> "NumpadEnter" [] OTHER -> "Err"

\* Ok(Some(KeyEvent)), and Ok(None) / Err(_) as events with those codes.
KeyEvent(code, state) == [code |-> code, state |-> state]

\* add_byte: <<new decoder state, result>>.
add_byte(state, b) ==
    IF state = "Start"
    THEN IF b = 224 THEN <<"Extended", KeyEvent("None", "")>>
         ELSE IF b >= 128 THEN <<"Start", KeyEvent(KeyCodeOf(b - 128), "Up")>>
         ELSE <<"Start", KeyEvent(KeyCodeOf(b), "Down")>>
    ELSE IF b >= 128 THEN <<"Start", KeyEvent(ExtendedKeyCodeOf(b - 128), "Up")>>
         ELSE <<"Start", KeyEvent(ExtendedKeyCodeOf(b), "Down")>>

process_keyevent(ev) ==
    IF ev.state = "Up" THEN NoKey
    ELSE CASE ev.code = "A" -> Unicode("a")
           [] ev.code = "Backspace" -> Unicode("U+0008")
           [] ev.code \in {"Enter", "NumpadEnter"} -> Unicode("\n")
           [] ev.code = "Escape" -> Unicode("U+001B")
           [] ev.code = "F1" -> RawKey("F1")

\* The result of lines 105-106 for one scancode: <<decoder state, decoded key>>.
Decode(state, b) ==
    LET r == add_byte(state, b)
    IN <<r[1], IF r[2].code \in {"None", "Err"} THEN NoKey ELSE process_keyevent(r[2])>>

\* format!("{:?}", key) of a raw key: its identifier, character by character.
DebugText(k) == CASE k = "F1" -> <<"F", "1">>

\* ---- texts ----
\* print!("The print macro is working ...") of main.rs: printable characters.
MainText == [i \in 1..MainTextLen |-> "a"]

\* println!("EXCEPTION: ...\n Stack Frame:\n {:#?}"): printable text with
\* line breaks inside, and the trailing "\n" println! adds.
ExceptionText == <<"a", "\n", "a", "\n">>

\* ---- handler bodies: the steps of each handler, in order ----
\* acknowledgment whose guard is not dropped.
Eoi_guard_kept == <<"lock_PICS", "notify">>

Eoi == <<"lock_PICS", "notify", "unlock_PICS">>
Console == <<"lock_FRAME_BUFFER_WRITER", "console", "unlock_FRAME_BUFFER_WRITER">>

timer_interrupt_handler == Eoi \o <<"ret">>

\* keyboard handler that returns at once when no key was decoded.
keyboard_interrupt_handler_early_return(key) ==
    <<"lock_KEYBOARD", "read">>
    \o (IF key.kind = "None" THEN <<>> ELSE Console \o Eoi)
    \o <<"unlock_KEYBOARD", "ret">>

keyboard_interrupt_handler(key) ==
    <<"lock_KEYBOARD", "read">>
    \o (IF key.kind = "None" THEN <<>> ELSE Console)
    \o Eoi
    \o <<"unlock_KEYBOARD", "ret">>

exception_handler == Console \o <<"ret">>

\* double-fault handler that reports like the other exception handlers and returns.
double_fault_handler_returning == Console \o <<"ret">>

double_fault_handler == <<"panic">>

Body(h) ==
    CASE h.kind = "timer_interrupt_handler" -> timer_interrupt_handler
      [] h.kind = "keyboard_interrupt_handler" -> keyboard_interrupt_handler(h.key)
      [] h.kind = "double_fault_handler" -> double_fault_handler
      [] OTHER -> exception_handler

NoIsr ==
    [kind |-> "none", i |-> 0, scancode |-> 0, key |-> NoKey, eois |-> <<>>,
     savedIF |-> FALSE, halted |-> FALSE]

Entered(kind, scancode) ==
    [kind |-> kind, i |-> 1, scancode |-> scancode, key |-> NoKey, eois |-> <<>>,
     savedIF |-> intEnabled, halted |-> FALSE]

Running == isr.kind # "none" /\ ~isr.halted
Step == Body(isr)[isr.i]
LockOf(step) ==
    CASE step \in {"lock_PICS", "unlock_PICS"} -> "PICS"
      [] step \in {"lock_KEYBOARD", "unlock_KEYBOARD"} -> "KEYBOARD"
      [] OTHER -> "FRAME_BUFFER_WRITER"

\* The vector a handler acknowledges.
Acknowledged(kind) ==
    IF kind = "timer_interrupt_handler" THEN InterruptIndex.Timer
    ELSE InterruptIndex.Keyboard

\* pic8259 notify_end_of_interrupt(id): a non-specific EOI, which clears the
\* highest-priority in-service line, if one of the controllers handles id.
notify_end_of_interrupt(p, id) ==
    IF \E k \in 1..2 : p.offsets[k] <= id /\ id < p.offsets[k] + 8
    THEN [p EXCEPT !.inService =
             IF @ = {} THEN {} ELSE @ \ {CHOOSE l \in @ : \A o \in @ : l <= o}]
    ELSE p

KernelIdle ==
    /\ fbw = "None"
    /\ locks = [l \in Locks |-> "free"]
    /\ pcMain = "new"
    /\ mainText = <<>>
    /\ intEnabled = FALSE
    /\ idt = <<>>
    /\ idtLoaded = FALSE
    /\ pics = PICS
    /\ isr = NoIsr
    /\ keyboard = "Start"
    /\ eventsLeft = 0

(***************************************************************************)
(* SpecConsole: one FrameBufferWriter, driven by arbitrary calls.          *)
(***************************************************************************)
\* The ghost record of a console call; again: the call before it was the same.
Op(name, a, b) ==
    [op |-> name, a |-> a, b |-> b,
     again |-> lastOp.op = name /\ lastOp.a = a /\ lastOp.b = b]

Begin(w) == [w EXCEPT !.writes = {}]

InitConsole ==
    /\ \E b \in Boots : writer = new(b.info, b.checks)
    /\ lastOp = [op |-> "new", a |-> 0, b |-> 0, again |-> FALSE]
    /\ callsLeft = MaxCalls
    /\ KernelIdle

SetCursor(row, column) ==
    /\ ~Panicked(writer)
    /\ callsLeft > 0
    /\ callsLeft' = callsLeft - 1
    /\ writer' = set_cursor(Begin(writer), row, column)
    /\ lastOp' = Op("set_cursor", row, column)
    /\ UNCHANGED kernelVars

Write(text) ==
    /\ ~Panicked(writer)
    /\ callsLeft > 0
    /\ callsLeft' = callsLeft - 1
    /\ writer' = write_str(Begin(writer), text)
    /\ lastOp' = Op("write", text, 0)
    /\ UNCHANGED kernelVars

Backspace ==
    /\ ~Panicked(writer)
    /\ callsLeft > 0
    /\ callsLeft' = callsLeft - 1
    /\ writer' = backspace(Begin(writer))
    /\ lastOp' = Op("backspace", 0, 0)
    /\ UNCHANGED kernelVars

NextConsole ==
    \/ \E row \in 0..MaxRow, column \in 0..MaxCol : SetCursor(row, column)
    \/ \E text \in Texts : Write(text)
    \/ Backspace

SpecConsole == InitConsole /\ [][NextConsole]_vars

(***************************************************************************)
(* Properties of the console (SpecConsole).                                *)
(***************************************************************************)
\* Pixel coordinates of the glyph cell whose top-left pixel is (x, y).
Cell(x, y) ==
    {<<x + i, y + j>> : i \in 0..(CHAR_RASTER_WIDTH - 1), j \in 0..(CHAR_RASTER_HEIGHT - 1)}

\* Byte offsets write_pixel computes for pixel p.
PixelBytes(w, p) ==
    {(p[2] * w.info.stride + p[1]) * w.info.bytes_per_pixel + k :
        k \in 0..(w.info.bytes_per_pixel - 1)}

CellBytes(w, x, y) == UNION {PixelBytes(w, p) : p \in Cell(x, y)}

SomethingDrawn(w) == \E i \in DOMAIN w.framebuffer : w.framebuffer[i] # 0

InBounds(w, row, column) ==
    /\ row * (CHAR_RASTER_HEIGHT + LINE_SPACING) < height(w)
    /\ column * (CHAR_RASTER_WIDTH + LETTER_SPACING) < width(w)

\* C5: after construction and after every completed set_cursor, write and
\* backspace call the cursor satisfies x_pos < width and y_pos < height.
CursorInBounds ==
    ~Panicked(writer) =>
        /\ writer.x_pos < width(writer)
        /\ writer.y_pos < height(writer)

\* C6: every pixel write issued by a call targets x < width and y < height,
\* and no call faults on an out-of-range index.
NoOutOfBoundsPixelWrite ==
    /\ \A p \in writer.writes : p[1] < width(writer) /\ p[2] < height(writer)
    /\ writer.panic # "index out of range"

\* C7: write("\n") sets x_pos to the border padding, adds raster height +
\* line spacing to y_pos and changes no framebuffer byte; write("\r") sets
\* x_pos to the border padding and changes neither y_pos nor the framebuffer.
NewlineAndCarriageReturn ==
    [][/\ (lastOp'.op = "write" /\ lastOp'.a = <<"\n">>) =>
            /\ writer'.x_pos = BORDER_PADDING
            /\ writer'.y_pos = writer.y_pos + CHAR_RASTER_HEIGHT + LINE_SPACING
            /\ writer'.framebuffer = writer.framebuffer
       /\ (lastOp'.op = "write" /\ lastOp'.a = <<"\r">>) =>
            /\ writer'.x_pos = BORDER_PADDING
            /\ writer'.y_pos = writer.y_pos
            /\ writer'.framebuffer = writer.framebuffer]_vars

\* C7 witness: a "\n" was written below the first line on a screen that
\* shows something.
NewlineWritten ==
    /\ lastOp.op = "write" /\ lastOp.a = <<"\n">>
    /\ writer.y_pos > BORDER_PADDING + CHAR_RASTER_HEIGHT + LINE_SPACING
    /\ SomethingDrawn(writer)

\* C8: backspace() at the left margin (x_pos = border padding) changes
\* neither the cursor nor any framebuffer byte, and no backspace() changes
\* y_pos.
BackspaceAtMargin ==
    [][lastOp'.op = "backspace" =>
          /\ writer'.y_pos = writer.y_pos
          /\ writer.x_pos = BORDER_PADDING =>
                /\ writer'.x_pos = writer.x_pos
                /\ writer'.framebuffer = writer.framebuffer]_vars

\* C8 witness: backspace() was called at the left margin, below the first
\* line, on a screen that shows something.
BackspacedAtMargin ==
    /\ lastOp.op = "backspace"
    /\ writer.x_pos = BORDER_PADDING
    /\ writer.y_pos >= CHAR_RASTER_HEIGHT + LINE_SPACING
    /\ SomethingDrawn(writer)

\* C9 as claimed: backspace() with x_pos different from the border padding
\* moves x_pos left by one cell width, zeroes that cell and changes no byte
\* outside it.
BackspaceOffMarginErases ==
    [][(lastOp'.op = "backspace" /\ writer.x_pos # BORDER_PADDING) =>
          /\ writer'.x_pos = writer.x_pos - (CHAR_RASTER_WIDTH + LETTER_SPACING)
          /\ writer'.writes = Cell(writer'.x_pos, writer.y_pos)
          /\ \A i \in DOMAIN writer.framebuffer :
                IF i \in CellBytes(writer, writer'.x_pos, writer.y_pos)
                THEN writer'.framebuffer[i] = 0
                ELSE writer'.framebuffer[i] = writer.framebuffer[i]]_vars

\* C9 as amended: backspace() with x_pos >= border padding + cell width
\* moves x_pos left by one cell width and writes zeros to pixels of that
\* cell only, to all of them unless it faults;
\* with x_pos below border padding + cell width it changes nothing.
BackspaceErasesFromSecondCell ==
    [][lastOp'.op = "backspace" =>
          IF writer.x_pos >= BORDER_PADDING + CHAR_RASTER_WIDTH
          THEN /\ writer'.x_pos = writer.x_pos - (CHAR_RASTER_WIDTH + LETTER_SPACING)
               /\ writer'.y_pos = writer.y_pos
               /\ writer'.writes \subseteq Cell(writer'.x_pos, writer.y_pos)
               /\ Panicked(writer') \/ writer'.writes = Cell(writer'.x_pos, writer.y_pos)
               /\ \A i \in DOMAIN writer.framebuffer :
                     IF \E p \in writer'.writes : i \in PixelBytes(writer, p)
                     THEN writer'.framebuffer[i] = 0
                     ELSE writer'.framebuffer[i] = writer.framebuffer[i]
          ELSE /\ writer'.x_pos = writer.x_pos
               /\ writer'.y_pos = writer.y_pos
               /\ writer'.writes = {}
               /\ writer'.framebuffer = writer.framebuffer]_vars

\* C9 witness: backspace() erased a cell that showed something.
BackspaceErased ==
    /\ lastOp.op = "backspace"
    /\ ~Panicked(writer)
    /\ writer.writes = Cell(writer.x_pos, writer.y_pos)
    /\ SomethingDrawn(writer)

\* C10: set_cursor(row, col) with row * line height < height and
\* col * cell width < width puts the cursor at (col * cell width,
\* row * line height) and changes no framebuffer byte, and a second call
\* with the same arguments changes nothing at all.
SetCursorIdempotent ==
    [][(lastOp'.op = "set_cursor" /\ InBounds(writer, lastOp'.a, lastOp'.b)) =>
          /\ writer'.y_pos = lastOp'.a * (CHAR_RASTER_HEIGHT + LINE_SPACING)
          /\ writer'.x_pos = lastOp'.b * (CHAR_RASTER_WIDTH + LETTER_SPACING)
          /\ writer'.framebuffer = writer.framebuffer
          /\ lastOp'.again =>
                /\ writer'.x_pos = writer.x_pos
                /\ writer'.y_pos = writer.y_pos]_vars

\* C10 witness: set_cursor was called twice in a row with the same in-bounds
\* row > 0 and column > 0 on a screen that shows something.
SetCursorRepeated ==
    /\ lastOp.op = "set_cursor" /\ lastOp.again
    /\ lastOp.a > 0 /\ lastOp.b > 0
    /\ InBounds(writer, lastOp.a, lastOp.b)
    /\ SomethingDrawn(writer)

\* C11: set_cursor(row, col) never faults; with row * line height >= height
\* it leaves every framebuffer byte zero and y_pos at the last valid row,
\* (height / line height - 1) * line height; with col * cell width >= width
\* it performs a newline from the last valid column.
SetCursorClampsOutOfRange ==
    [][lastOp'.op = "set_cursor" =>
          LET y == lastOp'.a * (CHAR_RASTER_HEIGHT + LINE_SPACING)
              x == lastOp'.b * (CHAR_RASTER_WIDTH + LETTER_SPACING)
              last_row == (height(writer) \div (CHAR_RASTER_HEIGHT + LINE_SPACING)) - 1
          IN /\ ~Panicked(writer')
             /\ y >= height(writer) =>
                   /\ \A i \in DOMAIN writer'.framebuffer : writer'.framebuffer[i] = 0
                   /\ x < width(writer) =>
                         writer'.y_pos = last_row * (CHAR_RASTER_HEIGHT + LINE_SPACING)
             /\ x >= width(writer) => writer'.x_pos = BORDER_PADDING]_vars

Printable(c) == c \notin {"\n", "\r"}

\* C12: a printable character written with x_pos + raster width >= width is
\* drawn after a newline, in the first cell of the next line (or of the top
\* line, after a clear), and no write() draws a glyph pixel at or beyond
\* column `width`.
AutomaticWrap ==
    [][lastOp'.op = "write" =>
          /\ \A p \in writer'.writes : p[1] < width(writer)
          /\ (Len(lastOp'.a) = 1 /\ Printable(lastOp'.a[1])
              /\ writer.x_pos + CHAR_RASTER_WIDTH >= width(writer)) =>
                /\ writer'.writes # {}
                /\ \A p \in writer'.writes :
                      /\ p[1] >= BORDER_PADDING
                      /\ p[1] < BORDER_PADDING + CHAR_RASTER_WIDTH
                      /\ \/ p[2] - (writer.y_pos + CHAR_RASTER_HEIGHT + LINE_SPACING)
                               \in 0..(CHAR_RASTER_HEIGHT - 1)
                         \/ p[2] - BORDER_PADDING \in 0..(CHAR_RASTER_HEIGHT - 1)]_vars

\* C16: a printable character whose bottom edge would cross the buffer
\* height, on its own line or on the line an automatic newline moves it to,
\* is drawn in the cell at (border padding, border padding) of a zeroed
\* framebuffer: afterwards every pixel outside that cell is zero and the
\* cursor is one cell to the right of it.
ClearOnBottom ==
    [][(/\ lastOp'.op = "write" /\ Len(lastOp'.a) = 1 /\ Printable(lastOp'.a[1])
        /\ LET y == IF writer.x_pos + CHAR_RASTER_WIDTH >= width(writer)
                    THEN writer.y_pos + CHAR_RASTER_HEIGHT + LINE_SPACING
                    ELSE writer.y_pos
           IN y + CHAR_RASTER_HEIGHT + BORDER_PADDING >= height(writer)) =>
          /\ writer'.writes = Cell(BORDER_PADDING, BORDER_PADDING)
          /\ writer'.x_pos = BORDER_PADDING + CHAR_RASTER_WIDTH + LETTER_SPACING
          /\ writer'.y_pos = BORDER_PADDING
          /\ \A x \in 0..(width(writer) - 1), y \in 0..(height(writer) - 1) :
                <<x, y>> \notin Cell(BORDER_PADDING, BORDER_PADDING) =>
                   \A i \in PixelBytes(writer, <<x, y>>) : writer'.framebuffer[i] = 0]_vars

(***************************************************************************)
(* SpecPixel: write_pixel alone, on the pixels of a small buffer, for      *)
(* every supported pixel format and bytes_per_pixel in 1..MaxBytesPerPixel.*)
(***************************************************************************)
PixelFormats == {"Rgb", "Bgr", "U8"}

\* FrameBufferInfo values: 2x2 pixels, rows of 3 (one of padding).
PixelGeometries ==
    {Geometry(2, 2, 3, b, f) : b \in 1..MaxBytesPerPixel, f \in PixelFormats}

\* Glyph intensities (u8): around the threshold of the single-channel format.
Intensities == {0, 100, 200, 201, 255}

InitPixel ==
    /\ \E info \in PixelGeometries : writer = new(info, TRUE)
    /\ lastOp = [op |-> "new", a |-> 0, b |-> 0, again |-> FALSE]
    /\ callsLeft = MaxPixelWrites
    /\ KernelIdle

WritePixel(x, y, intensity) ==
    /\ ~Panicked(writer)
    /\ callsLeft > 0
    /\ callsLeft' = callsLeft - 1
    /\ writer' = write_pixel(Begin(writer), x, y, intensity)
    /\ lastOp' = Op("write_pixel", <<x, y>>, intensity)
    /\ UNCHANGED kernelVars

NextPixel ==
    \E x \in 0..(width(writer) - 1), y \in 0..(height(writer) - 1),
       intensity \in Intensities : WritePixel(x, y, intensity)

SpecPixel == InitPixel /\ [][NextPixel]_vars

\* The k-th byte of a pixel of the given intensity: the colour tuple, then 0.
PixelByte(fmt, intensity, k) ==
    IF k > 3 THEN 0
    ELSE CASE fmt = "Rgb" -> <<intensity, intensity, intensity \div 2>>[k]
           [] fmt = "Bgr" -> <<intensity \div 2, intensity, intensity>>[k]
           [] fmt = "U8"  -> <<IF intensity > 200 THEN 15 ELSE 0, 0, 0>>[k]

\* The framebuffer after a pixel write at p: bytes_per_pixel bytes from
\* offset (y * stride + x) * bytes_per_pixel hold the pixel, the others are
\* as before.
PixelWritten(p, intensity) ==
    LET bpp == writer.info.bytes_per_pixel
        offset == (p[2] * writer.info.stride + p[1]) * bpp
    IN /\ ~Panicked(writer')
       /\ \A i \in DOMAIN writer.framebuffer :
             IF i >= offset /\ i < offset + bpp
             THEN writer'.framebuffer[i] =
                     PixelByte(writer.info.pixel_format, intensity, i - offset + 1)
             ELSE writer'.framebuffer[i] = writer.framebuffer[i]

\* C13 as claimed: for every supported format and every bytes_per_pixel a
\* pixel write at (x, y) changes exactly the bytes_per_pixel bytes at offset
\* (y * stride + x) * bytes_per_pixel, to the colour tuple of the format.
PixelWriteFrameEffect ==
    [][lastOp'.op = "write_pixel" => PixelWritten(lastOp'.a, lastOp'.b)]_vars

\* C13 as amended: the same for bytes_per_pixel <= 4; with more bytes per
\* pixel than the colour tuple has entries the write panics and changes no
\* byte.
PixelWriteFrameEffectUpTo4 ==
    [][lastOp'.op = "write_pixel" =>
          IF writer.info.bytes_per_pixel <= 4
          THEN PixelWritten(lastOp'.a, lastOp'.b)
          ELSE /\ Panicked(writer')
               /\ writer'.framebuffer = writer.framebuffer]_vars

\* C13 witness: a lit pixel of four bytes was written after another pixel.
PixelWrittenBesideAnother ==
    /\ lastOp.op = "write_pixel" /\ lastOp.b = 255 /\ lastOp.a = <<1, 1>>
    /\ callsLeft = MaxPixelWrites - 2
    /\ ~Panicked(writer)
    /\ writer.info.bytes_per_pixel = 4
    /\ \E i \in DOMAIN writer.framebuffer :
          /\ i \notin PixelBytes(writer, <<1, 1>>)
          /\ writer.framebuffer[i] # 0

(***************************************************************************)
(* Spec: my_entry_point and the interrupt handlers.                        *)
(***************************************************************************)
Init ==
    /\ \E b \in Boots : writer = Unconstructed(b.info, b.checks)
    /\ lastOp = [op |-> "none", a |-> 0, b |-> 0, again |-> FALSE]
    /\ callsLeft = 0
    /\ fbw = "None"
    /\ locks = [l \in Locks |-> "free"]
    /\ pcMain = "new"
    /\ mainText = MainText
    /\ intEnabled = FALSE
    /\ idt = <<>>
    /\ idtLoaded = FALSE
    /\ pics = PICS
    /\ isr = NoIsr
    /\ keyboard = "Start"
    /\ eventsLeft = MaxEvents

\* The foreground runs when no handler does and it has not panicked.
MainRuns(pc) == isr.kind = "none" /\ pcMain = pc

\* main.rs:42  FrameBufferWriter::new(buffer, frame_buffer_info)
MainNew ==
    /\ MainRuns("new")
    /\ writer' = new(writer.info, writer.checks)
    /\ lastOp' = Op("new", 0, 0)
    /\ pcMain' = "set_cursor"
    /\ UNCHANGED <<fbw, locks, mainText, intEnabled, idt, idtLoaded, pics, isr,
                   keyboard, eventsLeft, callsLeft>>

\* main.rs:45  frame_buffer_writer.set_cursor(1, 3)
MainSetCursor ==
    /\ MainRuns("set_cursor")
    /\ writer' = set_cursor(Begin(writer), 1, 3)
    /\ lastOp' = Op("set_cursor", 1, 3)
    /\ pcMain' = IF Panicked(writer') THEN "panic" ELSE InitPc[1]
    /\ UNCHANGED <<fbw, locks, mainText, intEnabled, idt, idtLoaded, pics, isr,
                   keyboard, eventsLeft, callsLeft>>

\* init_idt(): the first use builds the IDT static, load() loads it.
MainInitIdt ==
    \E i \in 1..Len(init) :
        /\ MainRuns(InitPc[i])
        /\ init[i] = "init_idt"
        /\ idt' = IDT
        /\ idtLoaded' = TRUE
        /\ pcMain' = AfterInit(i)
        /\ UNCHANGED <<writer, lastOp, fbw, locks, mainText, intEnabled, pics, isr,
                       keyboard, eventsLeft, callsLeft>>

\* init_pics(): PICS.lock().initialize(), under the guard.
MainInitPics ==
    \E i \in 1..Len(init) :
        /\ MainRuns(InitPc[i])
        /\ init[i] = "init_pics"
        /\ locks["PICS"] = "free"
        /\ locks' = [locks EXCEPT !["PICS"] = "main"]
        /\ pics' = [pics EXCEPT !.initialized = TRUE, !.inService = {}]
        /\ UNCHANGED <<writer, lastOp, fbw, pcMain, mainText, intEnabled, idt,
                       idtLoaded, isr, keyboard, eventsLeft, callsLeft>>

\* init_pics(): the guard is dropped at the end of the statement.
MainInitPicsUnlock ==
    \E i \in 1..Len(init) :
        /\ MainRuns(InitPc[i])
        /\ init[i] = "init_pics"
        /\ locks["PICS"] = "main"
        /\ locks' = [locks EXCEPT !["PICS"] = "free"]
        /\ pcMain' = AfterInit(i)
        /\ UNCHANGED <<writer, lastOp, fbw, mainText, intEnabled, idt, idtLoaded,
                       pics, isr, keyboard, eventsLeft, callsLeft>>

\* x86_64::instructions::interrupts::enable()
MainEnable ==
    \E i \in 1..Len(init) :
        /\ MainRuns(InitPc[i])
        /\ init[i] = "enable"
        /\ intEnabled' = TRUE
        /\ pcMain' = AfterInit(i)
        /\ UNCHANGED <<writer, lastOp, fbw, locks, mainText, idt, idtLoaded, pics,
                       isr, keyboard, eventsLeft, callsLeft>>

\* main.rs:47 and printx: FRAME_BUFFER_WRITER.lock()
MainLock ==
    /\ isr.kind = "none"
    /\ pcMain \in {"store_lock", "print_lock"}
    /\ locks["FRAME_BUFFER_WRITER"] = "free"
    /\ locks' = [locks EXCEPT !["FRAME_BUFFER_WRITER"] = "main"]
    /\ pcMain' = IF pcMain = "store_lock" THEN "store" ELSE "print"
    /\ UNCHANGED <<writer, lastOp, fbw, mainText, intEnabled, idt, idtLoaded, pics,
                   isr, keyboard, eventsLeft, callsLeft>>

\* main.rs:47  *guard = Some(frame_buffer_writer)
MainStore ==
    /\ MainRuns("store")
    /\ fbw' = "Some"
    /\ pcMain' = "store_unlock"
    /\ UNCHANGED <<writer, lastOp, locks, mainText, intEnabled, idt, idtLoaded,
                   pics, isr, keyboard, eventsLeft, callsLeft>>

\* The guard of main.rs:47 or of printx is dropped.
MainUnlock ==
    /\ isr.kind = "none"
    /\ pcMain \in {"store_unlock", "print_unlock"}
    /\ locks' = [locks EXCEPT !["FRAME_BUFFER_WRITER"] = "free"]
    /\ pcMain' = IF pcMain = "store_unlock" THEN "print_lock" ELSE "hlt"
    /\ UNCHANGED <<writer, lastOp, fbw, mainText, intEnabled, idt, idtLoaded, pics,
                   isr, keyboard, eventsLeft, callsLeft>>

\* printx: writer.write_fmt(args), one character of the text per step.
MainPrint ==
    /\ MainRuns("print")
    /\ IF fbw = "Some" /\ mainText # <<>>
       THEN /\ writer' = write_str(Begin(writer), <<Head(mainText)>>)
            /\ lastOp' = Op("write", <<Head(mainText)>>, 0)
            /\ mainText' = Tail(mainText)
            /\ pcMain' = IF Panicked(writer') THEN "panic" ELSE "print"
       ELSE /\ pcMain' = "print_unlock"
            /\ UNCHANGED <<writer, lastOp, mainText>>
    /\ UNCHANGED <<fbw, locks, intEnabled, idt, idtLoaded, pics, isr, keyboard,
                   eventsLeft, callsLeft>>

\* An interrupt request line is delivered: the CPU takes it when interrupts
\* are enabled, no line of the same or higher priority is in service and
\* its vector has a handler; the interrupt gate clears the interrupt flag.
Deliverable(irq) ==
    /\ intEnabled /\ isr.kind = "none"
    /\ idtLoaded /\ pics.initialized
    /\ pics.offsets[1] + irq \in DOMAIN idt
    /\ \A l \in pics.inService : l > irq

RaiseTimer ==
    /\ Deliverable(0)
    /\ isr' = Entered(idt[pics.offsets[1]], 0)
    /\ pics' = [pics EXCEPT !.inService = @ \cup {0}]
    /\ intEnabled' = FALSE
    /\ UNCHANGED <<writer, lastOp, fbw, locks, pcMain, mainText, idt, idtLoaded,
                   keyboard, eventsLeft, callsLeft>>

RaiseKeyboard(scancode) ==
    /\ Deliverable(1)
    /\ eventsLeft > 0
    /\ eventsLeft' = eventsLeft - 1
    /\ isr' = Entered(idt[pics.offsets[1] + 1], scancode)
    /\ pics' = [pics EXCEPT !.inService = @ \cup {1}]
    /\ intEnabled' = FALSE
    /\ UNCHANGED <<writer, lastOp, fbw, locks, pcMain, mainText, idt, idtLoaded,
                   keyboard, callsLeft>>

\* A CPU exception raised by the foreground code, whatever the interrupt flag.
RaiseException(name) ==
    /\ isr.kind = "none"
    /\ pcMain \notin {"hlt", "panic"}
    /\ idtLoaded
    /\ eventsLeft > 0
    /\ eventsLeft' = eventsLeft - 1
    /\ isr' = Entered(idt[ExceptionVector[name]], 0)
    /\ intEnabled' = FALSE
    /\ UNCHANGED <<writer, lastOp, fbw, locks, pcMain, mainText, idt, idtLoaded,
                   pics, keyboard, callsLeft>>

Advance == [isr EXCEPT !.i = @ + 1]

\* A handler takes a free lock; on a held one it spins, and no step is taken.
IsrLock ==
    /\ Running
    /\ Step \in {"lock_PICS", "lock_KEYBOARD", "lock_FRAME_BUFFER_WRITER"}
    /\ locks[LockOf(Step)] = "free"
    /\ locks' = [locks EXCEPT ![LockOf(Step)] = "isr"]
    /\ isr' = Advance
    /\ UNCHANGED <<writer, lastOp, fbw, pcMain, mainText, intEnabled, idt,
                   idtLoaded, pics, keyboard, eventsLeft, callsLeft>>

IsrUnlock ==
    /\ Running
    /\ Step \in {"unlock_PICS", "unlock_KEYBOARD", "unlock_FRAME_BUFFER_WRITER"}
    /\ locks' = [locks EXCEPT ![LockOf(Step)] = "free"]
    /\ isr' = Advance
    /\ UNCHANGED <<writer, lastOp, fbw, pcMain, mainText, intEnabled, idt,
                   idtLoaded, pics, keyboard, eventsLeft, callsLeft>>

\* interruptsa.rs:102-106: read port 0x60, add_byte, process_keyevent.
IsrRead ==
    /\ Running
    /\ Step = "read"
    /\ keyboard' = Decode(keyboard, isr.scancode)[1]
    /\ isr' = [Advance EXCEPT !.key = Decode(keyboard, isr.scancode)[2]]
    /\ UNCHANGED <<writer, lastOp, fbw, locks, pcMain, mainText, intEnabled, idt,
                   idtLoaded, pics, eventsLeft, callsLeft>>

\* Console call of a handler that treats backspace like any other character.
ConsoleCall_no_backspace(h) ==
    IF h.kind = "keyboard_interrupt_handler"
    THEN IF h.key.kind = "Unicode"
         THEN Op("write", <<h.key.val>>, 0)
         ELSE Op("write", DebugText(h.key.val), 0)
    ELSE Op("write", ExceptionText, 0)

\* What a handler sends to the console while it holds the console lock.
ConsoleCall(h) ==
    IF h.kind = "keyboard_interrupt_handler"
    THEN IF h.key.kind = "Unicode"
         THEN IF h.key.val = "U+0008" THEN Op("backspace", 0, 0)
              ELSE Op("write", <<h.key.val>>, 0)
         ELSE Op("write", DebugText(h.key.val), 0)
    ELSE Op("write", ExceptionText, 0)

\* The body of `if let Some(writer) = &mut *FRAME_BUFFER_WRITER.lock()`.
IsrConsole ==
    /\ Running
    /\ Step = "console"
    /\ IF fbw = "Some"
       THEN /\ lastOp' = ConsoleCall(isr)
            /\ writer' = IF lastOp'.op = "backspace" THEN backspace(Begin(writer))
                         ELSE write_str(Begin(writer), lastOp'.a)
            /\ isr' = IF Panicked(writer') THEN [isr EXCEPT !.halted = TRUE] ELSE Advance
       ELSE /\ isr' = Advance
            /\ UNCHANGED <<writer, lastOp>>
    /\ UNCHANGED <<fbw, locks, pcMain, mainText, intEnabled, idt, idtLoaded, pics,
                   keyboard, eventsLeft, callsLeft>>

\* PICS.lock().notify_end_of_interrupt(InterruptIndex::X.as_u8())
IsrNotify ==
    /\ Running
    /\ Step = "notify"
    /\ pics' = notify_end_of_interrupt(pics, Acknowledged(isr.kind))
    /\ isr' = [Advance EXCEPT !.eois = Append(@, Acknowledged(isr.kind))]
    /\ UNCHANGED <<writer, lastOp, fbw, locks, pcMain, mainText, intEnabled, idt,
                   idtLoaded, keyboard, eventsLeft, callsLeft>>

\* iretq: the handler returns and the saved flags are restored.
IsrReturn ==
    /\ Running
    /\ Step = "ret"
    /\ intEnabled' = isr.savedIF
    /\ isr' = NoIsr
    /\ UNCHANGED <<writer, lastOp, fbw, locks, pcMain, mainText, idt, idtLoaded,
                   pics, keyboard, eventsLeft, callsLeft>>

\* panic!: the panic handler loops on hlt and never returns.
IsrPanic ==
    /\ Running
    /\ Step = "panic"
    /\ isr' = [isr EXCEPT !.halted = TRUE]
    /\ UNCHANGED <<writer, lastOp, fbw, locks, pcMain, mainText, intEnabled, idt,
                   idtLoaded, pics, keyboard, eventsLeft, callsLeft>>

Next ==
    \/ MainNew
    \/ MainSetCursor
    \/ MainInitIdt
    \/ MainInitPics
    \/ MainInitPicsUnlock
    \/ MainEnable
    \/ MainLock
    \/ MainStore
    \/ MainUnlock
    \/ MainPrint
    \/ RaiseTimer
    \/ \E scancode \in Scancodes : RaiseKeyboard(scancode)
    \/ \E name \in DOMAIN ExceptionVector : RaiseException(name)
    \/ IsrLock
    \/ IsrUnlock
    \/ IsrRead
    \/ IsrConsole
    \/ IsrNotify
    \/ IsrReturn
    \/ IsrPanic

Spec == Init /\ [][Next]_vars

(***************************************************************************)
(* Properties of the kernel (Spec).                                        *)
(***************************************************************************)
HardwareHandlers == {"timer_interrupt_handler", "keyboard_interrupt_handler"}

AtLock == Running /\ Step \in {"lock_PICS", "lock_KEYBOARD", "lock_FRAME_BUFFER_WRITER"}

\* C1: a hardware handler has sent exactly one end-of-interrupt, for its own
\* vector (timer 32, keyboard 33), when it returns, and never more than one
\* or one for another vector before.
OneAcknowledgmentPerHandler ==
    isr.kind \in HardwareHandlers =>
        /\ Len(isr.eois) <= 1
        /\ \A k \in 1..Len(isr.eois) :
              isr.eois[k] = IF isr.kind = "timer_interrupt_handler" THEN 32 ELSE 33
        /\ (Running /\ Step = "ret") => Len(isr.eois) = 1

\* C1 witness: the keyboard handler is about to return although the byte
\* completed no key event.
KeyboardReturnsWithoutKey ==
    /\ isr.kind = "keyboard_interrupt_handler"
    /\ Running /\ Step = "ret"
    /\ isr.key.kind = "None"

\* C2: a handler never tries to take a lock that is still held.
HandlersNeverBlock == AtLock => locks[LockOf(Step)] = "free"

\* C3: whenever interrupts are enabled the shared console handle is set.
ConsoleStoredBeforeInterrupts == intEnabled => fbw = "Some"

\* C4: interrupts are enabled, or a handler runs, only when the vector table
\* with exactly the six handlers is loaded and the controller pair is
\* initialized with offsets 32 and 40; the table never holds another
\* vector, and both offsets are above the CPU-reserved 0..31.
InterruptsOnlyAfterSetup ==
    /\ (intEnabled \/ isr.kind # "none") =>
          /\ idtLoaded
          /\ DOMAIN idt = {3, 6, 8, 13, 32, 33}
          /\ idt[3] = "breakpoint_handler"
          /\ idt[6] = "invalid_opcode_handler"
          /\ idt[8] = "double_fault_handler"
          /\ idt[13] = "general_protection_handler"
          /\ idt[32] = "timer_interrupt_handler"
          /\ idt[33] = "keyboard_interrupt_handler"
    /\ intEnabled => pics.initialized
    /\ isr.kind \in HardwareHandlers => pics.initialized
    /\ pics.offsets = <<32, 40>>
    /\ DOMAIN idt \subseteq {3, 6, 8, 13, 32, 33}

\* C4 witness: interrupts have just been enabled.
InterruptsJustEnabled == intEnabled /\ pcMain = "store_lock" /\ isr.kind = "none"

\* C14: once the double-fault handler is entered it never returns, and no
\* step changes the console, the console handle, a lock, the decoder, the
\* controllers, the interrupt flag or the foreground's position; it sends
\* no acknowledgment and no other handler runs.
DoubleFaultIsFatal ==
    [][isr.kind = "double_fault_handler" =>
          /\ isr'.kind = "double_fault_handler"
          /\ isr'.eois = <<>>
          /\ writer' = writer /\ lastOp' = lastOp /\ fbw' = fbw /\ locks' = locks
          /\ keyboard' = keyboard /\ pics' = pics /\ intEnabled' = intEnabled
          /\ pcMain' = pcMain /\ mainText' = mainText]_vars

\* C14 witness: a double fault taken with interrupts enabled and the console
\* stored has reached the panic handler's halt loop.
DoubleFaultHalted ==
    /\ isr.kind = "double_fault_handler" /\ isr.halted
    /\ isr.savedIF /\ ~intEnabled
    /\ fbw = "Some"

\* C15: with an unsupported pixel format the first pixel write of a console
\* call writes no framebuffer byte and panics, which halts the code that
\* made the call; from then on no step, of the foreground or of a timer or
\* keyboard handler, changes the framebuffer or the cursor.
UnsupportedFormatIsFatal ==
    [][/\ (/\ ~Panicked(writer)
           /\ writer.info.pixel_format \notin PixelFormats
           /\ writer' # writer /\ writer'.writes # {}) =>
              /\ writer'.panic = "pixel format"
              /\ Cardinality(writer'.writes) = 1
              /\ \A i \in DOMAIN writer.framebuffer :
                    writer'.framebuffer[i] \in {writer.framebuffer[i], 0}
              /\ pcMain' = "panic" \/ isr'.halted
       /\ writer.panic = "pixel format" =>
              /\ writer'.framebuffer = writer.framebuffer
              /\ writer'.x_pos = writer.x_pos
              /\ writer'.y_pos = writer.y_pos
              /\ writer' = writer]_vars

\* C15 witness: the foreground has halted on the unsupported format and a
\* later keyboard interrupt has been taken and has read its byte.
UnsupportedFormatHalted ==
    /\ writer.panic = "pixel format"
    /\ pcMain = "panic"
    /\ isr.kind = "keyboard_interrupt_handler" /\ isr.i > 2

\* What the keyboard types with a byte, by decoder state: the characters of
\* the key (code point 8 for backspace, the identifier of a raw key), or
\* <<>> when the byte completes no key press.
Typed(state, scancode) ==
    IF state = "Start"
    THEN CASE scancode = 14 -> <<"U+0008">>
           [] scancode = 30 -> <<"a">>
           [] scancode = 28 -> <<"\n">>
           [] scancode = 1  -> <<"U+001B">>
           [] scancode = 59 -> <<"F", "1">>
           [] OTHER -> <<>>
    ELSE IF scancode = 28 THEN <<"\n">> ELSE <<>>

TextOf(key) ==
    CASE key.kind = "None" -> <<>>
      [] key.kind = "Unicode" -> <<key.val>>
      [] key.kind = "RawKey" -> IF key.val = "F1" THEN <<"F", "1">> ELSE <<>>

\* C17: a keyboard handler reads one byte, as its second step, and feeds it
\* to the decoder, whose state changes at no other step; with the console
\* stored, a decoded backspace makes it call backspace() and append nothing,
\* another character is appended by write, a raw key is appended as the
\* text of its identifier; when the byte completes no key event the handler
\* makes no console call, and the console changes at no other step.
KeyboardDispatch ==
    [][isr.kind = "keyboard_interrupt_handler" =>
          /\ (Running /\ Step = "read") =>
                /\ isr.i = 2
                /\ keyboard' = IF keyboard = "Start" /\ isr.scancode = 224
                               THEN "Extended" ELSE "Start"
                /\ TextOf(isr'.key) = Typed(keyboard, isr.scancode)
          /\ ~(Running /\ Step = "read") =>
                /\ keyboard' = keyboard
                /\ isr'.kind = isr.kind => isr'.key = isr.key
          /\ (Running /\ Step = "ret") => isr.i > 2
          /\ (Running /\ Step = "console") => TextOf(isr.key) # <<>>
          /\ (Running /\ Step = "console" /\ fbw = "Some") =>
                IF TextOf(isr.key) = <<"U+0008">>
                THEN /\ lastOp'.op = "backspace"
                     /\ writer' = backspace(Begin(writer))
                ELSE /\ lastOp'.op = "write" /\ lastOp'.a = TextOf(isr.key)
                     /\ writer' = write_str(Begin(writer), TextOf(isr.key))
          /\ ~(Running /\ Step = "console" /\ fbw = "Some") =>
                writer' = writer /\ lastOp' = lastOp]_vars

\* C17 witness: a keyboard handler has erased a cell for a decoded backspace.
KeyboardBackspaceDispatched ==
    /\ isr.kind = "keyboard_interrupt_handler" /\ isr.scancode = 14
    /\ lastOp.op = "backspace"
    /\ writer.writes # {} /\ ~Panicked(writer)

\* C18: a handler holds the controller lock only at its acknowledgment and
\* the release after it: no handler holds it when a handler starts or
\* returns, and it is free when a timer or keyboard handler does; it is
\* never held together with the console-handle lock, a handler that asks
\* for it finds it free, and the foreground holds it only inside init_pics,
\* with interrupts not yet enabled.
ControllerLockOnlyForAcknowledgment ==
    /\ locks["PICS"] = "isr" =>
          /\ isr.kind \in HardwareHandlers
          /\ Step \in {"notify", "unlock_PICS"}
          /\ locks["FRAME_BUFFER_WRITER"] # "isr"
    /\ (isr.kind # "none" /\ (isr.i = 1 \/ Step = "ret")) =>
          /\ locks["PICS"] # "isr"
          /\ isr.kind \in HardwareHandlers => locks["PICS"] = "free"
    /\ (AtLock /\ Step = "lock_PICS") => locks["PICS"] = "free"
    /\ locks["PICS"] = "main" =>
          /\ pcMain = "init_2"
          /\ ~intEnabled
          /\ isr.kind \notin HardwareHandlers

\* C18 witness: a keyboard handler that has made its console call holds the
\* controller lock for its acknowledgment.
ControllerLockHeldForAcknowledgment ==
    /\ isr.kind = "keyboard_interrupt_handler" /\ isr.key.kind # "None"
    /\ Running /\ Step = "notify"
    /\ locks["PICS"] = "isr"
    /\ fbw = "Some"

\* C19: a keyboard or diagnostic-exception handler that runs while the
\* console handle is unset changes nothing of the console and does not
\* fault; it passes over its console step without output and goes on to its
\* return, never waiting for a lock, and a keyboard handler has read its
\* byte and sent its one acknowledgment when it returns; the return keeps
\* nothing of the key, so nothing is left to render later.
OutputDroppedWhileUnset ==
    [][(isr.kind \notin {"none", "double_fault_handler"} /\ fbw = "None") =>
          /\ writer' = writer /\ lastOp' = lastOp /\ fbw' = fbw
          /\ mainText' = mainText
          /\ ~isr'.halted
          /\ AtLock' => locks'[LockOf(Step')] = "free"
          /\ (Running /\ Step = "console") => isr' = [isr EXCEPT !.i = @ + 1]
          /\ (Running /\ Step = "ret") =>
                /\ isr' = NoIsr
                /\ isr.kind = "keyboard_interrupt_handler" =>
                      isr.i > 2 /\ isr.eois = <<InterruptIndex.Keyboard>>]_vars
====
